---- MODULE Spec2Model ----
(***************************************************************************)
(* Statement parser of sdscp (statements.py): the dispatcher               *)
(* StTokenWalker.consume_statement, the S_* node constructors, the driver  *)
(* parse and the parent-binding pass, over a heap of syntax nodes and a    *)
(* heap of token walkers.                                                  *)
(*                                                                         *)
(* A machine record m threads the interpreter state through the           *)
(* constructors, one operator per statement of the code:                   *)
(*   m.heap    the syntax nodes created so far (a node's id is its index)  *)
(*   m.tws     the token walkers created so far: [tokens, pos, owner]      *)
(*   m.frames  the constructors being executed, innermost first, each with *)
(*             its self and its local variables                            *)
(*   m.ok      FALSE once an exception has been raised and is propagating  *)
(*   m.err     the last exception raised                                   *)
(*   m.tok     the token the last consume returned                         *)
(*   m.node    the node the last constructor call returned                 *)
(*   m.over    a loop ran as many iterations as its stream has tokens and  *)
(*             had a next token still (the evaluation is cut there)        *)
(* Every operator is strict in m.ok: with an exception propagating it      *)
(* returns m unchanged, which is how a Python exception leaves a function. *)
(***************************************************************************)
EXTENDS Integers, Sequences, FiniteSets, TLC

VARIABLES tokens, heap, tws, sx, pc, ret, err, last, bound

vars == <<tokens, heap, tws, sx, pc, ret, err, last, bound>>

\* --------------------------------------------------------------- tokens

\* Python's None, for a node reference and for a walker reference.
NoNode == 0

\* A token of tokens.py, every field present: kind is the class name, value
\* the text of a name, operator or expression, ptype the ParenType of a
\* parenthesis, tokens the inner stream of a code block, of an argument
\* parenthesis or of an rvalue (operator, expression), expression and
\* for_cond the text of the expression token held, for_init and for_iter the
\* inner streams of a for-parenthesis.
BlankToken ==
  [kind |-> "None", value |-> "", ptype |-> "", tokens |-> <<>>,
   expression |-> "", for_init |-> <<>>, for_cond |-> "", for_iter |-> <<>>]

Tok(k) == [BlankToken EXCEPT !.kind = k]

TokV(k, v) == [BlankToken EXCEPT !.kind = k, !.value = v]

T_Rvalue(op, e) ==
  [BlankToken EXCEPT !.kind = "T_Rvalue",
     !.tokens = <<TokV("T_AssignOperator", op), TokV("T_Expression", e)>>]

T_CodeBlock(ts) == [BlankToken EXCEPT !.kind = "T_CodeBlock", !.tokens = ts]

ParenExpr(e) ==
  [BlankToken EXCEPT !.kind = "T_Paren", !.ptype = "EXPR", !.expression = e]

ParenArgs(pt, ts) ==
  [BlankToken EXCEPT !.kind = "T_Paren", !.ptype = pt, !.tokens = ts]

ParenFor(i, c, it) ==
  [BlankToken EXCEPT !.kind = "T_Paren", !.ptype = "FOR",
     !.for_init = i, !.for_cond = c, !.for_iter = it]

\* ---------------------------------------------------------------- nodes

\* A syntax node with the instance attributes the constructors declare, all
\* None. tw, from and to record the walker the node was built from (NoNode
\* when built without one) and that walker's position at the constructor's
\* entry and exit. params is S_Function.args (names); args is S_Call.args;
\* text is the source text of an expression or operator node.
BlankNode ==
  [type |-> "None", parent |-> NoNode, tw |-> NoNode, from |-> 0, to |-> 0,
   name |-> "", index |-> "", args |-> <<>>, params |-> <<>>,
   value |-> NoNode, children |-> <<>>, var |-> NoNode, op |-> NoNode,
   cond |-> NoNode, then_st |-> NoNode, else_st |-> NoNode,
   body_st |-> NoNode, init |-> <<>>, iter |-> <<>>, text |-> ""]

NoErr == [msg |-> "", tok |-> ""]

\* The local variables of a constructor: self, the parenthesis token, the
\* variable name and index, and the walker of an inner stream (atw, ctw,
\* itw).
BlankFrame ==
  [self |-> NoNode, paren |-> BlankToken, name |-> "", index |-> "",
   sub |-> NoNode]

\* The machine at the start of a call from parse.
Machine(h, w) ==
  [heap |-> h, tws |-> w, frames |-> <<>>, ok |-> TRUE, err |-> NoErr,
   tok |-> BlankToken, node |-> NoNode, over |-> FALSE]

\* The innermost constructor's frame.
Top(m) == m.frames[1]

\* raise Exception(...)
Raise(m, msg, found) ==
  [m EXCEPT !.ok = FALSE, !.err = [msg |-> msg, tok |-> found]]

\* A constructor of class cls is entered with walker w, and
\* super().__init__() runs: the object exists from here on.
New(m, cls, w) ==
  IF ~m.ok THEN m
  ELSE [m EXCEPT
          !.heap = Append(m.heap,
             [BlankNode EXCEPT !.type = cls, !.tw = w,
                !.from = IF w = NoNode THEN 0 ELSE m.tws[w].pos]),
          !.frames = <<[BlankFrame EXCEPT !.self = Len(m.heap) + 1]>> \o @]

\* The constructor returns its object.
Return(m) ==
  IF ~m.ok THEN m
  ELSE [m EXCEPT
          !.heap[Top(m).self].to =
             IF m.heap[Top(m).self].tw = NoNode THEN 0
             ELSE m.tws[m.heap[Top(m).self].tw].pos,
          !.node = Top(m).self,
          !.frames = Tail(@)]

\* self.<f> = <the node just returned>
Attr(m, f) ==
  IF ~m.ok THEN m ELSE [m EXCEPT !.heap[Top(m).self][f] = m.node]

\* self.<f>.append(<the node just returned>)
AttrAppend(m, f) ==
  IF ~m.ok THEN m ELSE [m EXCEPT !.heap[Top(m).self][f] = Append(@, m.node)]

\* self.<f> = <the token just consumed>.value
AttrValue(m, f) ==
  IF ~m.ok THEN m ELSE [m EXCEPT !.heap[Top(m).self][f] = m.tok.value]

\* self.<f>.append(<the token just consumed>.value)
AttrAppendValue(m, f) ==
  IF ~m.ok THEN m
  ELSE [m EXCEPT !.heap[Top(m).self][f] = Append(@, m.tok.value)]

\* <local v> = <the token just consumed>.value
Local(m, v) ==
  IF ~m.ok THEN m ELSE [m EXCEPT !.frames[1][v] = m.tok.value]

\* StTokenWalker(ts): a fresh walker at the first token, kept in a local;
\* owner records the node whose constructor created it.
NewWalker(m, ts) ==
  IF ~m.ok THEN m
  ELSE [m EXCEPT !.tws = Append(m.tws,
                    [tokens |-> ts, pos |-> 1, owner |-> Top(m).self]),
                 !.frames[1].sub = Len(m.tws) + 1]

\* --------------------------------------------------------- token walker

has_next(m, w) == m.tws[w].pos <= Len(m.tws[w].tokens)

peek(m, w) ==
  IF has_next(m, w) THEN m.tws[w].tokens[m.tws[w].pos] ELSE BlankToken

has(m, w, k) == has_next(m, w) /\ peek(m, w).kind = k

\* Mutant of consume: the token is returned and the cursor stays on it.
consume_stay(m, w, k) ==
  IF ~m.ok THEN m
  ELSE IF has(m, w, k) THEN [m EXCEPT !.tok = peek(m, w)]
  ELSE Raise(m, k, peek(m, w).kind)

\* consume(cls): the next token when it is of the class, after stepping over
\* it; an exception, the cursor left on the offending token, otherwise.
consume(m, w, k) ==
  IF ~m.ok THEN m
  ELSE IF has(m, w, k)
    THEN [m EXCEPT !.tok = peek(m, w), !.tws[w].pos = @ + 1]
    ELSE Raise(m, k, peek(m, w).kind)

\* The parenthesis just consumed has the content of ParenType pt, or not.
ParenOfType(m, pt) ==
  IF ~m.ok THEN m
  ELSE IF m.tok.ptype = pt THEN [m EXCEPT !.frames[1].paren = m.tok]
  ELSE Raise(m, pt, m.tok.ptype)

\* paren = tw.consume_paren(pt)
consume_paren(m, w, pt) == ParenOfType(consume(m, w, "T_Paren"), pt)

\* A statement loop that has run as many iterations as its stream has tokens
\* and finds a next token still is cut.
Cut(m) == [Raise(m, "loop", "") EXCEPT !.over = TRUE]

\* A loop over walker w may run iteration i (counted from 0).
Within(m, w, i) == i < Len(m.tws[w].tokens)

\* ---------------------------------------------------------- expressions

\* An object that is not a statement: an expression, a variable, a literal
\* or an operator token.
NewObject(m, cls, name, index, text) ==
  IF ~m.ok THEN m
  ELSE [m EXCEPT !.heap = Append(m.heap,
          [BlankNode EXCEPT !.type = cls, !.name = name, !.index = index,
             !.text = text]),
        !.node = Len(m.heap) + 1]

\* The expression token a constructor hands to expressions.parse: the token
\* just consumed (sel = "value"), the expression of the parenthesis
\* ("expression"), its for-condition ("for_cond"), or the second token of
\* the rvalue ("rvalue").
ExpressionToken(t, sel) ==
  CASE sel = "expression" -> t.expression
    [] sel = "for_cond" -> t.for_cond
    [] sel = "rvalue" -> t.tokens[2].value
    [] OTHER -> t.value

\* expressions.parse(token): one expression node per expression token.
expressions_parse(m, sel) ==
  IF ~m.ok THEN m
  ELSE NewObject(m, "Expression", "", "", ExpressionToken(m.tok, sel))

\* E_Literal(T_Number('0'))
E_Literal(m, v) == NewObject(m, "E_Literal", "", "", v)

\* E_Variable(name, index) of the locals name and index
E_Variable(m) ==
  IF ~m.ok THEN m
  ELSE NewObject(m, "E_Variable", Top(m).name, Top(m).index, "")

\* rv.tokens[0], the operator token of the rvalue just consumed
AssignOperator(m) ==
  IF ~m.ok THEN m
  ELSE NewObject(m, "T_AssignOperator", "", "", m.tok.tokens[1].value)

\* --------------------------------------------------------- constructors

RECURSIVE consume_statement(_, _)
RECURSIVE BlockLoop(_, _)
RECURSIVE ForLoop(_, _, _)
RECURSIVE CallArgs(_, _)
RECURSIVE FunctionArgs(_, _)

\* Mutant of EmptyBody: the semicolon is not consumed.
EmptyBodyStay(m, w) == m

\* if tw is not None: tw.consume(T_Semicolon)
EmptyBody(m, w) == IF w = NoNode THEN m ELSE consume(m, w, "T_Semicolon")

S_Empty(m, w) == Return(EmptyBody(New(m, "S_Empty", w), w))

\* Mutant of S_Goto: a failure puts the cursor back where it was on entry.
S_Goto_rollback(m, w) ==
  IF ~m.ok THEN m
  ELSE IF has(m, w, "T_GOTO") /\ has(consume(m, w, "T_GOTO"), w, "T_Name")
    THEN LET a == New(m, "S_Goto", w)
             b == consume(a, w, "T_GOTO")
             c == AttrValue(consume(b, w, "T_Name"), "name")
             d == consume(c, w, "T_Semicolon")
         IN Return(d)
    ELSE Raise(New(m, "S_Goto", w), "T_Name", "")

S_Goto(m, w) ==
  LET a == New(m, "S_Goto", w)
      b == consume(a, w, "T_GOTO")
      c == AttrValue(consume(b, w, "T_Name"), "name")
      d == consume(c, w, "T_Semicolon")
  IN Return(d)

S_Label(m, w) ==
  LET a == New(m, "S_Label", w)
      b == consume(a, w, "T_LABEL")
      c == AttrValue(consume(b, w, "T_Name"), "name")
      d == consume(c, w, "T_Colon")
  IN Return(d)

\* while atw.has_next(): val = atw.consume(T_Expression);
\* self.args.append(expressions.parse(val))
CallArgs(m, i) ==
  IF ~m.ok THEN m
  ELSE IF ~has_next(m, Top(m).sub) THEN m
  ELSE IF ~Within(m, Top(m).sub, i) THEN Cut(m)
  ELSE CallArgs(
         AttrAppend(
           expressions_parse(consume(m, Top(m).sub, "T_Expression"), "value"),
           "args"),
         i + 1)

\* atw = StTokenWalker(paren.tokens) and the loop over it
CallWalk(m) ==
  IF ~m.ok THEN m ELSE CallArgs(NewWalker(m, Top(m).paren.tokens), 0)

S_Call(m, w) ==
  LET a == New(m, "S_Call", w)
      b == consume(a, w, "T_CALL")
      c == AttrValue(consume(b, w, "T_Name"), "name")
      d == consume_paren(c, w, "ARGVALS")
      e == CallWalk(d)
      f == consume(e, w, "T_Semicolon")
  IN Return(f)

\* while atw.has_next(): self.args.append(atw.consume(T_Name).value)
FunctionArgs(m, i) ==
  IF ~m.ok THEN m
  ELSE IF ~has_next(m, Top(m).sub) THEN m
  ELSE IF ~Within(m, Top(m).sub, i) THEN Cut(m)
  ELSE FunctionArgs(
         AttrAppendValue(consume(m, Top(m).sub, "T_Name"), "params"), i + 1)

\* atw = StTokenWalker(paren.tokens) and the loop over it
FunctionWalk(m) ==
  IF ~m.ok THEN m ELSE FunctionArgs(NewWalker(m, Top(m).paren.tokens), 0)

\* Mutant of BlockChild: every statement is kept, an empty one too.
BlockChildAll(m) == AttrAppend(m, "children")

\* while ctw.has_next(): st = ctw.consume_statement();
\* if not isinstance(st, S_Empty): self.children.append(st)
BlockChild(m) ==
  IF ~m.ok THEN m
  ELSE IF m.heap[m.node].type # "S_Empty" THEN AttrAppend(m, "children")
  ELSE m

\* Mutant of BlockLoop: an exception of a child statement is caught, and
\* the block is returned with the children collected before it.
BlockLoopCaught(m, st, i) ==
  IF st.ok THEN BlockLoop(BlockChild(st), i + 1)
  ELSE [st EXCEPT !.ok = TRUE, !.frames = m.frames]

BlockLoopCatch(m, i) ==
  IF ~m.ok THEN m
  ELSE IF ~has_next(m, Top(m).sub) THEN m
  ELSE IF ~Within(m, Top(m).sub, i) THEN Cut(m)
  ELSE BlockLoopCaught(m, consume_statement(m, Top(m).sub), i)

BlockLoop(m, i) ==
  IF ~m.ok THEN m
  ELSE IF ~has_next(m, Top(m).sub) THEN m
  ELSE IF ~Within(m, Top(m).sub, i) THEN Cut(m)
  ELSE BlockLoop(BlockChild(consume_statement(m, Top(m).sub)), i + 1)

\* ctw = StTokenWalker(cb.tokens) and the loop over it
BlockWalk(m) ==
  IF ~m.ok THEN m ELSE BlockLoop(NewWalker(m, m.tok.tokens), 0)

S_Block(m, w) ==
  LET a == New(m, "S_Block", w)
      b == consume(a, w, "T_CodeBlock")
      c == BlockWalk(b)
  IN Return(c)

S_Function(m, w) ==
  LET a == New(m, "S_Function", w)
      b == consume(a, w, "T_FUNCTION")
      c == AttrValue(consume(b, w, "T_Name"), "name")
      d == consume_paren(c, w, "ARGNAMES")
      e == FunctionWalk(d)
      f == Attr(S_Block(e, w), "body_st")
  IN Return(f)

\* Mutant of ReturnValue: without an expression the value stays None.
ReturnValueNone(m, w) ==
  IF ~m.ok THEN m
  ELSE IF has(m, w, "T_Expression")
    THEN expressions_parse(consume(m, w, "T_Expression"), "value")
    ELSE [m EXCEPT !.node = NoNode]

\* The value of a return statement: the expression given, or a default.
ReturnValue(m, w) ==
  IF ~m.ok THEN m
  ELSE IF has(m, w, "T_Expression")
    THEN expressions_parse(consume(m, w, "T_Expression"), "value")
    ELSE E_Literal(m, "0")

S_Return(m, w) ==
  LET a == New(m, "S_Return", w)
      b == consume(a, w, "T_RETURN")
      c == Attr(ReturnValue(b, w), "value")
      d == consume(c, w, "T_Semicolon")
  IN Return(d)

S_Case(m, w) ==
  LET a == New(m, "S_Case", w)
      b == consume(a, w, "T_CASE")
      c == consume(b, w, "T_Expression")
      d == Attr(expressions_parse(c, "value"), "value")
      e == consume(d, w, "T_Colon")
  IN Return(e)

S_Default(m, w) ==
  LET a == New(m, "S_Default", w)
      b == consume(a, w, "T_DEFAULT")
      c == consume(b, w, "T_Colon")
  IN Return(c)

S_Break(m, w) ==
  LET a == New(m, "S_Break", w)
      b == consume(a, w, "T_BREAK")
      c == consume(b, w, "T_Semicolon")
  IN Return(c)

S_Continue(m, w) ==
  LET a == New(m, "S_Continue", w)
      b == consume(a, w, "T_CONTINUE")
      c == consume(b, w, "T_Semicolon")
  IN Return(c)

\* Mutant of VarInit: any assignment operator is accepted.
VarInitAny(m) == Attr(expressions_parse(m, "rvalue"), "value")

\* The rvalue of a declaration, just consumed: only a plain = is accepted.
VarInit(m) ==
  IF ~m.ok THEN m
  ELSE IF m.tok.tokens[1].value # "="
    THEN Raise(m, "Cannot use in variable declaration",
               m.tok.tokens[1].value)
    ELSE Attr(expressions_parse(m, "rvalue"), "value")

\* The optional rvalue of a declaration; without one the value stays None.
VarValue(m, w) ==
  IF ~m.ok THEN m
  ELSE IF has(m, w, "T_Rvalue") THEN VarInit(consume(m, w, "T_Rvalue"))
  ELSE m

S_Var(m, w) ==
  LET a == New(m, "S_Var", w)
      b == consume(a, w, "T_VAR")
      c == Local(consume(b, w, "T_Name"), "name")
      d == Attr(E_Variable(c), "var")
      e == VarValue(d, w)
      f == consume(e, w, "T_Semicolon")
  IN Return(f)

\* index = None; if tw.has(T_Bracket): index = tw.consume(T_Bracket).index
AssignIndex(m, w) ==
  IF ~m.ok THEN m
  ELSE IF has(m, w, "T_Bracket")
    THEN Local(consume(m, w, "T_Bracket"), "index")
    ELSE m

S_Assign(m, w) ==
  LET a == New(m, "S_Assign", w)
      b == consume(a, w, "T_SET")
      c == Local(consume(b, w, "T_Name"), "name")
      d == AssignIndex(c, w)
      e == Attr(E_Variable(d), "var")
      f == consume(e, w, "T_Rvalue")
      g == Attr(AssignOperator(f), "op")
      h == Attr(expressions_parse(g, "rvalue"), "value")
      i == consume(h, w, "T_Semicolon")
  IN Return(i)

\* Mutant of IfElse: an ELSE is never looked for.
IfElseNever(m, w) == S_Empty(m, NoNode)

\* Mutant of IfElse: only an If that is not nested in another constructor
\* takes an ELSE.
IfElseOutermost(m, w) ==
  IF ~m.ok THEN m
  ELSE IF has(m, w, "T_ELSE") /\ Len(m.frames) = 1
    THEN consume_statement(consume(m, w, "T_ELSE"), w)
    ELSE S_Empty(m, NoNode)

\* The else branch: the statement after ELSE, or an empty statement.
IfElse(m, w) ==
  IF ~m.ok THEN m
  ELSE IF has(m, w, "T_ELSE")
    THEN consume_statement(consume(m, w, "T_ELSE"), w)
    ELSE S_Empty(m, NoNode)

S_If(m, w) ==
  LET a == New(m, "S_If", w)
      b == consume(a, w, "T_IF")
      c == consume_paren(b, w, "EXPR")
      d == Attr(expressions_parse(c, "expression"), "cond")
      e == Attr(consume_statement(d, w), "then_st")
      f == Attr(IfElse(e, w), "else_st")
  IN Return(f)

S_While(m, w) ==
  LET a == New(m, "S_While", w)
      b == consume(a, w, "T_WHILE")
      c == consume_paren(b, w, "EXPR")
      d == Attr(expressions_parse(c, "expression"), "cond")
      e == Attr(consume_statement(d, w), "body_st")
  IN Return(e)

S_DoWhile(m, w) ==
  LET a == New(m, "S_DoWhile", w)
      b == consume(a, w, "T_DO")
      c == Attr(consume_statement(b, w), "body_st")
      d == consume(c, w, "T_WHILE")
      e == consume_paren(d, w, "EXPR")
      f == Attr(expressions_parse(e, "expression"), "cond")
      g == consume(f, w, "T_Semicolon")
  IN Return(g)

\* while itw.has_next(): s = itw.consume_statement(); self.<f>.append(s)
ForLoop(m, f, i) ==
  IF ~m.ok THEN m
  ELSE IF ~has_next(m, Top(m).sub) THEN m
  ELSE IF ~Within(m, Top(m).sub, i) THEN Cut(m)
  ELSE ForLoop(AttrAppend(consume_statement(m, Top(m).sub), f), f, i + 1)

\* itw = StTokenWalker(paren.for_init) and the loop over it
ForInit(m) ==
  IF ~m.ok THEN m
  ELSE ForLoop(NewWalker(m, Top(m).paren.for_init), "init", 0)

\* itw = StTokenWalker(paren.for_iter) and the loop over it
ForIter(m) ==
  IF ~m.ok THEN m
  ELSE ForLoop(NewWalker(m, Top(m).paren.for_iter), "iter", 0)

S_For(m, w) ==
  LET a == New(m, "S_For", w)
      b == consume(a, w, "T_FOR")
      c == consume_paren(b, w, "FOR")
      d == Attr(expressions_parse(c, "for_cond"), "cond")
      e == ForInit(d)
      f == ForIter(e)
      g == Attr(consume_statement(f, w), "body_st")
  IN Return(g)

S_Switch(m, w) ==
  LET a == New(m, "S_Switch", w)
      b == consume(a, w, "T_SWITCH")
      c == consume_paren(b, w, "EXPR")
      d == Attr(expressions_parse(c, "expression"), "value")
      e == Attr(S_Block(d, w), "body_st")
  IN Return(e)

\* ----------------------------------------------------------- dispatcher

\* Mutant of Unrecognized: the error names the token taken with next(),
\* which steps over it.
UnrecognizedNext(m, w) ==
  [Raise(m, "Could not create statement for token", peek(m, w).kind)
     EXCEPT !.tws[w].pos = @ + 1]

\* raise Exception('Could not create statement for token %s' % peek())
Unrecognized(m, w) ==
  Raise(m, "Could not create statement for token", peek(m, w).kind)

consume_statement(m, w) ==
  IF ~m.ok THEN m
  ELSE IF has(m, w, "T_CodeBlock") THEN S_Block(m, w)
  ELSE IF has(m, w, "T_Semicolon") THEN S_Empty(m, w)
  ELSE IF has(m, w, "T_FUNCTION") THEN S_Function(m, w)
  ELSE IF has(m, w, "T_CALL") THEN S_Call(m, w)
  ELSE IF has(m, w, "T_RETURN") THEN S_Return(m, w)
  ELSE IF has(m, w, "T_GOTO") THEN S_Goto(m, w)
  ELSE IF has(m, w, "T_LABEL") THEN S_Label(m, w)
  ELSE IF has(m, w, "T_IF") THEN S_If(m, w)
  ELSE IF has(m, w, "T_SWITCH") THEN S_Switch(m, w)
  ELSE IF has(m, w, "T_CASE") THEN S_Case(m, w)
  ELSE IF has(m, w, "T_DEFAULT") THEN S_Default(m, w)
  ELSE IF has(m, w, "T_WHILE") THEN S_While(m, w)
  ELSE IF has(m, w, "T_DO") THEN S_DoWhile(m, w)
  ELSE IF has(m, w, "T_FOR") THEN S_For(m, w)
  ELSE IF has(m, w, "T_BREAK") THEN S_Break(m, w)
  ELSE IF has(m, w, "T_CONTINUE") THEN S_Continue(m, w)
  ELSE IF has(m, w, "T_VAR") THEN S_Var(m, w)
  ELSE IF has(m, w, "T_SET") THEN S_Assign(m, w)
  ELSE Unrecognized(m, w)

\* ------------------------------------------------------- parent binding

RECURSIVE bind_parent(_, _, _)
RECURSIVE BindEach(_, _, _)

\* The nodes the _bind_children of each class binds, in the order it binds
\* them.
S_Call_bind_children(n) == n.args

S_Function_bind_children(n) == <<n.body_st>>

S_Return_bind_children(n) == <<n.value>>

S_Case_bind_children(n) == <<n.value>>

S_Block_bind_children(n) == n.children

S_Var_bind_children(n) ==
  IF n.value # NoNode THEN <<n.var, n.value>> ELSE <<n.var>>

\* Mutant of S_Assign_bind_children: the operator is not bound.
S_Assign_bind_children_no_op(n) == <<n.var, n.value>>

S_Assign_bind_children(n) == <<n.var, n.op, n.value>>

S_If_bind_children(n) == <<n.cond, n.then_st, n.else_st>>

S_While_bind_children(n) == <<n.cond, n.body_st>>

S_DoWhile_bind_children(n) == <<n.cond, n.body_st>>

S_For_bind_children(n) == n.init \o <<n.cond>> \o n.iter \o <<n.body_st>>

S_Switch_bind_children(n) == <<n.value, n.body_st>>

\* self._bind_children() by the class of self; a class that does not
\* override it binds nothing.
bind_children(n) ==
  CASE n.type = "S_Call" -> S_Call_bind_children(n)
    [] n.type = "S_Function" -> S_Function_bind_children(n)
    [] n.type = "S_Return" -> S_Return_bind_children(n)
    [] n.type = "S_Case" -> S_Case_bind_children(n)
    [] n.type = "S_Block" -> S_Block_bind_children(n)
    [] n.type = "S_Var" -> S_Var_bind_children(n)
    [] n.type = "S_Assign" -> S_Assign_bind_children(n)
    [] n.type = "S_If" -> S_If_bind_children(n)
    [] n.type = "S_While" -> S_While_bind_children(n)
    [] n.type = "S_DoWhile" -> S_DoWhile_bind_children(n)
    [] n.type = "S_For" -> S_For_bind_children(n)
    [] n.type = "S_Switch" -> S_Switch_bind_children(n)
    [] OTHER -> <<>>

\* for c in cs: c.bind_parent(self)
BindEach(h, cs, self) ==
  IF cs = <<>> THEN h
  ELSE BindEach(bind_parent(h, Head(cs), self), Tail(cs), self)

\* SyntaxNode.bind_parent: self.parent = parent; self._bind_children()
bind_parent(h, self, parent) ==
  BindEach([h EXCEPT ![self].parent = parent], bind_children(h[self]), self)

\* --------------------------------------------------------------- inputs

\* How deep the generated statements nest.
MaxDepth == 2

Semi == Tok("T_Semicolon")

Colon == Tok("T_Colon")

Name(v) == TokV("T_Name", v)

Expr(v) == TokV("T_Expression", v)

RetSemi == <<Tok("T_RETURN"), Semi>>

SetStmt == <<Tok("T_SET"), Name("x"), T_Rvalue("+=", "a"), Semi>>

\* Statements without nested statements that the grammar accepts.
GoodAtoms ==
  { <<Semi>>,
    <<Tok("T_GOTO"), Name("L"), Semi>>,
    <<Tok("T_LABEL"), Name("L"), Colon>>,
    <<Tok("T_CALL"), Name("f"),
      ParenArgs("ARGVALS", <<Expr("a"), Expr("b")>>), Semi>>,
    RetSemi,
    <<Tok("T_RETURN"), Expr("a"), Semi>>,
    <<Tok("T_CASE"), Expr("a"), Colon>>,
    <<Tok("T_DEFAULT"), Colon>>,
    <<Tok("T_BREAK"), Semi>>,
    <<Tok("T_CONTINUE"), Semi>>,
    <<Tok("T_VAR"), Name("x"), Semi>>,
    <<Tok("T_VAR"), Name("x"), T_Rvalue("=", "a"), Semi>>,
    SetStmt,
    <<Tok("T_SET"), Name("x"), TokV("T_Bracket", "i"),
      T_Rvalue("=", "b"), Semi>> }

\* Token runs the grammar rejects: a stray token, a missing name, a missing
\* terminator, a compound operator in a declaration, a missing body.
BadAtoms ==
  { <<Tok("T_ELSE")>>,
    <<Name("x")>>,
    <<Expr("a")>>,
    <<Tok("T_Operator")>>,
    <<Colon>>,
    <<Tok("T_GOTO"), Semi>>,
    <<Tok("T_GOTO"), Name("L")>>,
    <<Tok("T_LABEL"), Name("L"), Semi>>,
    <<Tok("T_CALL"), Name("f"), ParenArgs("ARGVALS", <<Name("x")>>), Semi>>,
    <<Tok("T_CALL"), Name("f"), ParenExpr("a"), Semi>>,
    <<Tok("T_RETURN"), Colon>>,
    <<Tok("T_RETURN"), Expr("a")>>,
    <<Tok("T_CASE"), Colon>>,
    <<Tok("T_DEFAULT"), Semi>>,
    <<Tok("T_BREAK")>>,
    <<Tok("T_CONTINUE"), Colon>>,
    <<Tok("T_VAR"), Name("x"), T_Rvalue("+=", "a"), Semi>>,
    <<Tok("T_VAR"), Name("x"), T_Rvalue("=", "a")>>,
    <<Tok("T_VAR"), Semi>>,
    <<Tok("T_SET"), Name("x"), Semi>>,
    <<Tok("T_FUNCTION"), Name("f"), ParenArgs("ARGNAMES", <<Name("p")>>),
      Semi>>,
    <<Tok("T_FUNCTION"), Name("f"), ParenArgs("ARGNAMES", <<Expr("a")>>),
      T_CodeBlock(<<>>)>>,
    <<Tok("T_SWITCH"), ParenExpr("a"), Semi>>,
    <<Tok("T_IF"), Semi>>,
    <<Tok("T_IF"), ParenExpr("a")>>,
    <<Tok("T_WHILE"), ParenExpr("a")>>,
    <<Tok("T_DO"), Semi, Semi>>,
    <<Tok("T_FOR"), ParenExpr("a"), Semi>> }

\* The statements nested at the innermost level.
Core ==
  { <<Semi>>, RetSemi, SetStmt,
    <<Tok("T_VAR"), Name("x"), T_Rvalue("=", "a"), Semi>>,
    <<Tok("T_GOTO"), Semi>>,
    <<Tok("T_ELSE")>> }

\* The compound statements over a nested token run x.
Wrap(x) ==
  { <<T_CodeBlock(x)>>,
    <<T_CodeBlock(<<Semi>> \o x \o <<Semi>>)>>,
    <<Tok("T_FUNCTION"), Name("f"),
      ParenArgs("ARGNAMES", <<Name("p"), Name("q")>>), T_CodeBlock(x)>>,
    <<Tok("T_IF"), ParenExpr("a")>> \o x,
    <<Tok("T_IF"), ParenExpr("a")>> \o x \o <<Tok("T_ELSE"), Semi>>,
    <<Tok("T_IF"), ParenExpr("a")>> \o x \o <<Tok("T_ELSE")>> \o RetSemi,
    <<Tok("T_IF"), ParenExpr("a"), Semi, Tok("T_ELSE")>> \o x,
    <<Tok("T_WHILE"), ParenExpr("b")>> \o x,
    <<Tok("T_DO")>> \o x \o <<Tok("T_WHILE"), ParenExpr("b"), Semi>>,
    <<Tok("T_FOR"), ParenFor(<<>>, "c", <<>>)>> \o x,
    <<Tok("T_FOR"), ParenFor(SetStmt, "c", SetStmt \o <<Semi>>)>> \o x,
    <<Tok("T_FOR"), ParenFor(x, "c", <<>>), Semi>>,
    <<Tok("T_FOR"), ParenFor(SetStmt, "c", x)>> \o RetSemi,
    <<Tok("T_SWITCH"), ParenExpr("a"),
      T_CodeBlock(<<Tok("T_CASE"), Expr("b"), Colon>> \o x
                  \o <<Tok("T_DEFAULT"), Colon>>)>> }

RECURSIVE Frag(_)

\* The token runs nested at most d deep.
Frag(d) ==
  IF d <= 0 THEN Core
  ELSE Core \cup UNION { Wrap(x) : x \in Frag(d - 1) }

\* The token streams parse is run on.
Programs ==
  GoodAtoms \cup BadAtoms \cup {<<>>}
    \cup UNION { Wrap(x) : x \in GoodAtoms \cup BadAtoms }
    \cup { l \o f : l \in {<<>>, RetSemi}, f \in Frag(MaxDepth) }
    \cup { f \o l : f \in Frag(MaxDepth - 1), l \in {<<Semi>>, <<Colon>>} }

\* --------------------------------------------------------------- driver

\* What the last consume_statement call of parse did: the kind of the token
\* it was called at, the cursor before and after, the heap size before, the
\* node returned, and whether it returned or raised.
NoCall ==
  [kind |-> "", entry |-> 0, exit |-> 0, heap0 |-> 0, node |-> NoNode,
   ok |-> TRUE, over |-> FALSE]

\* parse(tokens) up to its loop: tw = StTokenWalker(tokens); sx = []
Init ==
  /\ tokens \in Programs
  /\ heap = <<>>
  /\ tws = <<[tokens |-> tokens, pos |-> 1, owner |-> NoNode]>>
  /\ sx = <<>>
  /\ pc = "loop"
  /\ ret = <<>>
  /\ err = NoErr
  /\ last = NoCall
  /\ bound = {}

\* parse's walker.
tw == 1

Call(m0, m1) ==
  [kind |-> peek(m0, tw).kind, entry |-> m0.tws[tw].pos,
   exit |-> m1.tws[tw].pos, heap0 |-> Len(m0.heap),
   node |-> IF m1.ok THEN m1.node ELSE NoNode, ok |-> m1.ok,
   over |-> m1.over]

\* One iteration of parse's loop: stmt = tw.consume_statement();
\* sx.append(stmt)
ParseStep ==
  /\ pc = "loop"
  /\ has_next(Machine(heap, tws), tw)
  /\ \E m1 \in {consume_statement(Machine(heap, tws), tw)} :
       /\ m1.ok
       /\ heap' = m1.heap
       /\ tws' = m1.tws
       /\ sx' = Append(sx, m1.node)
       /\ err' = m1.err
       /\ last' = Call(Machine(heap, tws), m1)
  /\ UNCHANGED <<tokens, pc, ret, bound>>

\* An iteration in which consume_statement raises: the exception leaves
\* parse, and sx with it.
ParseRaise ==
  /\ pc = "loop"
  /\ has_next(Machine(heap, tws), tw)
  /\ \E m1 \in {consume_statement(Machine(heap, tws), tw)} :
       /\ ~m1.ok
       /\ heap' = m1.heap
       /\ tws' = m1.tws
       /\ sx' = <<>>
       /\ pc' = "raised"
       /\ err' = m1.err
       /\ last' = Call(Machine(heap, tws), m1)
  /\ UNCHANGED <<tokens, ret, bound>>

\* The loop ends with the stream exhausted: return sx
ParseReturn ==
  /\ pc = "loop"
  /\ ~has_next(Machine(heap, tws), tw)
  /\ pc' = "returned"
  /\ ret' = <<sx>>
  /\ UNCHANGED <<tokens, heap, tws, sx, err, last, bound>>

\* The caller binds one statement of the returned list as a root.
BindParent ==
  /\ pc = "returned"
  /\ \E i \in 1..Len(ret[1]) :
       /\ ret[1][i] \notin bound
       /\ heap' = bind_parent(heap, ret[1][i], NoNode)
       /\ bound' = bound \cup {ret[1][i]}
  /\ UNCHANGED <<tokens, tws, sx, pc, ret, err, last>>

Next == ParseStep \/ ParseRaise \/ ParseReturn \/ BindParent

Spec == Init /\ [][Next]_vars

\* ------------------------------------------------------------ properties

Ids == 1..Len(heap)

\* The constructor of node i has returned.
Completed(i) == heap[i].tw # NoNode /\ heap[i].to # 0

\* Every constructor that was entered has returned: no exception cut one.
AllBuilt == pc # "raised"

Elems(q) == { q[k] : k \in 1..Len(q) }

\* The nodes a node refers to in its attributes.
Refs(n) ==
  ({n.value, n.var, n.op, n.cond, n.then_st, n.else_st, n.body_st}
     \cup Elems(n.args) \cup Elems(n.children) \cup Elems(n.init)
     \cup Elems(n.iter)) \ {NoNode}

Statements ==
  {"S_Empty", "S_Goto", "S_Label", "S_Call", "S_Function", "S_Return",
   "S_Case", "S_Default", "S_Break", "S_Continue", "S_Block", "S_Var",
   "S_Assign", "S_If", "S_While", "S_DoWhile", "S_For", "S_Switch"}

\* The token at position p of the walker node i was built from.
TokenAt(i, p) ==
  IF p <= Len(tws[heap[i].tw].tokens) THEN tws[heap[i].tw].tokens[p]
  ELSE BlankToken

RECURSIVE Tiling(_, _)

\* The statements of walker j's stream from position p on, in source order:
\* the statement that starts at p, then those from where it ends.
Tiling(j, p) ==
  IF p > Len(tws[j].tokens) THEN <<>>
  ELSE LET n == CHOOSE i \in Ids :
                  heap[i].tw = j /\ heap[i].from = p
                    /\ heap[i].type \in Statements
       IN <<n>> \o Tiling(j, heap[n].to)

NotEmpty(i) == heap[i].type # "S_Empty"

\* C1: a block's children hold no S_Empty node, and they are the non-empty
\* statements of the block's inner stream in source order.
C1_BlockHasNoEmpty ==
  \A b \in Ids :
    heap[b].type = "S_Block" =>
      /\ \A k \in 1..Len(heap[b].children) :
           heap[heap[b].children[k]].type # "S_Empty"
      /\ (AllBuilt =>
            \E j \in 1..Len(tws) :
              /\ tws[j].owner = b
              /\ heap[b].children = SelectSeq(Tiling(j, 1), NotEmpty))

\* C1 witness: a built block whose inner stream held empty statements
\* around the one statement that was kept, itself a block of terminators
\* only, built without children.
C1_Witness ==
  /\ pc = "returned"
  /\ \E b \in Ids, j \in 1..Len(tws) :
       /\ heap[b].type = "S_Block"
       /\ tws[j].owner = b
       /\ Len(tws[j].tokens) = 3
       /\ tws[j].tokens[1].kind = "T_Semicolon"
       /\ Len(heap[b].children) = 1
       /\ heap[heap[b].children[1]].from = 2
       /\ heap[heap[b].children[1]].type = "S_Block"
       /\ heap[heap[b].children[1]].children = <<>>
       /\ \E k \in 1..Len(tws) :
            /\ tws[k].owner = heap[b].children[1]
            /\ Len(tws[k].tokens) = 3
            /\ \A q \in 1..3 : tws[k].tokens[q].kind = "T_Semicolon"

RECURSIVE Reach(_)

\* The nodes reachable from the nodes of S through attributes.
Reach(S) ==
  LET T == S \cup UNION { Refs(heap[i]) : i \in S }
  IN IF T = S THEN S ELSE Reach(T)

\* C2: once bind_parent ran on a root, every node below the root has as its
\* parent the one node that refers to it.
C2_ParentsBound ==
  \A r \in bound :
    \A p \in Reach({r}) :
      \A c \in Refs(heap[p]) :
        /\ heap[c].parent = p
        /\ \A q \in Ids : c \in Refs(heap[q]) => q = p

\* C2 witness: a bound For statement with an assignment in its init list and
\* one in its body, the operators of both bound to their assignment.
C2_Witness ==
  \E r \in bound :
    /\ heap[r].type = "S_For"
    /\ heap[r].init # <<>>
    /\ heap[heap[r].init[1]].type = "S_Assign"
    /\ heap[heap[heap[r].init[1]].op].parent = heap[r].init[1]
    /\ heap[heap[r].body_st].type = "S_Block"
    /\ heap[heap[r].body_st].children # <<>>
    /\ heap[heap[heap[r].body_st].children[1]].parent = heap[r].body_st

\* The dispatcher's table as the specification lists it: the class built for
\* a token kind, "" for a kind without an entry.
Dispatch(k) ==
  CASE k = "T_CodeBlock" -> "S_Block"
    [] k = "T_Semicolon" -> "S_Empty"
    [] k = "T_FUNCTION" -> "S_Function"
    [] k = "T_CALL" -> "S_Call"
    [] k = "T_RETURN" -> "S_Return"
    [] k = "T_GOTO" -> "S_Goto"
    [] k = "T_LABEL" -> "S_Label"
    [] k = "T_IF" -> "S_If"
    [] k = "T_SWITCH" -> "S_Switch"
    [] k = "T_CASE" -> "S_Case"
    [] k = "T_DEFAULT" -> "S_Default"
    [] k = "T_WHILE" -> "S_While"
    [] k = "T_DO" -> "S_DoWhile"
    [] k = "T_FOR" -> "S_For"
    [] k = "T_BREAK" -> "S_Break"
    [] k = "T_CONTINUE" -> "S_Continue"
    [] k = "T_VAR" -> "S_Var"
    [] k = "T_SET" -> "S_Assign"
    [] OTHER -> ""

\* parse called consume_statement at a token the dispatcher has an entry
\* for: a constructor was entered.
ConstructorCalled == last.kind # "" /\ Dispatch(last.kind) # ""

\* C3 as stated: a constructor that fails leaves the cursor where it was
\* when the constructor was entered.
C3_FailureRestoresCursor ==
  ConstructorCalled =>
    IF last.ok THEN last.exit > last.entry ELSE last.exit = last.entry

\* C3 amended: a constructor that succeeds has advanced the cursor from its
\* first token to the end of its construct; one that fails leaves the cursor
\* where the failure was detected, past the introducing token at least.
C3_FailureKeepsCursor ==
  /\ ConstructorCalled =>
       IF last.ok
         THEN /\ last.exit > last.entry
              /\ heap[last.node].from = last.entry
              /\ heap[last.node].to = last.exit
         ELSE /\ last.exit > last.entry
              /\ last.exit <= Len(tokens) + 1
  /\ AllBuilt => \A i \in Ids : Completed(i) => heap[i].to > heap[i].from

\* C3 witness: a Goto without a name failed after GOTO was consumed.
C3_Witness ==
  /\ last.kind = "T_GOTO"
  /\ ~last.ok
  /\ last.exit = last.entry + 1

\* C4: at a token without an entry the dispatcher raises an error naming the
\* token, creates no node and leaves the cursor; at a token with an entry
\* the first node created is of the class the table gives, built from that
\* token on, and it is the node returned.
C4_Dispatch ==
  last.kind # "" =>
    IF Dispatch(last.kind) = ""
      THEN /\ ~last.ok
           /\ pc = "raised"
           /\ err.tok = last.kind
           /\ last.exit = last.entry
           /\ Len(heap) = last.heap0
      ELSE /\ Len(heap) > last.heap0
           /\ heap[last.heap0 + 1].type = Dispatch(last.kind)
           /\ heap[last.heap0 + 1].tw = tw
           /\ heap[last.heap0 + 1].from = last.entry
           /\ last.ok => last.node = last.heap0 + 1

\* C4 witness: the dispatcher refused a stray ELSE after a statement.
C4_Witness ==
  /\ last.kind = "T_ELSE"
  /\ last.entry > 1
  /\ pc = "raised"

\* C5: once an exception was raised, at whatever depth, parse has ended with
\* it and has returned no list.
C5_FailurePropagates ==
  /\ err # NoErr => pc = "raised"
  /\ pc = "raised" => (~last.ok /\ ret = <<>> /\ sx = <<>>)

\* C5 witness: after a completed top-level statement, a statement failed in
\* an inner stream that was left unfinished.
C5_Witness ==
  /\ pc = "raised"
  /\ last.entry > 1
  /\ \E j \in 2..Len(tws) : tws[j].pos <= Len(tws[j].tokens)

\* C6: an If not followed by ELSE has a fresh S_Empty built without a walker
\* as its else-statement and ends where its then-statement ends; an If
\* followed by ELSE has as else-statement the statement parsed right after
\* the ELSE.
C6_IfElse ==
  AllBuilt =>
    \A n \in Ids :
      (heap[n].type = "S_If" /\ Completed(n)) =>
        LET t == heap[n].then_st
            e == heap[n].else_st
        IN IF TokenAt(n, heap[t].to).kind = "T_ELSE"
             THEN /\ heap[e].tw = heap[n].tw
                  /\ heap[e].from = heap[t].to + 1
                  /\ heap[e].type \in Statements
                  /\ heap[n].to = heap[e].to
             ELSE /\ heap[e].type = "S_Empty"
                  /\ heap[e].tw = NoNode
                  /\ e > t
                  /\ heap[n].to = heap[t].to

\* C6 witness: an If whose else-statement is an If that has no else.
C6_Witness ==
  /\ pc = "returned"
  /\ \E n \in Ids :
       /\ heap[n].type = "S_If"
       /\ heap[heap[n].else_st].type = "S_If"
       /\ heap[heap[heap[n].else_st].else_st].tw = NoNode

\* The rvalue token of the declaration node n, if there is one.
VarRvalue(n) == TokenAt(n, heap[n].from + 2)

C8_ReturnValue ==
  \A n \in Ids :
    (heap[n].type = "S_Return" /\ Completed(n)) =>
      IF TokenAt(n, heap[n].from + 1).kind = "T_Expression"
        THEN /\ heap[heap[n].value].type = "Expression"
             /\ heap[heap[n].value].text = TokenAt(n, heap[n].from + 1).value
             /\ TokenAt(n, heap[n].from + 2).kind = "T_Semicolon"
             /\ heap[n].to = heap[n].from + 3
        ELSE /\ heap[n].value # NoNode
             /\ heap[heap[n].value].type = "E_Literal"
             /\ heap[heap[n].value].text = "0"
             /\ TokenAt(n, heap[n].from + 1).kind = "T_Semicolon"
             /\ heap[n].to = heap[n].from + 2

\* C8 witness: a Return without expression and one with an expression were
\* both built.
C8_Witness ==
  /\ pc = "returned"
  /\ \E n \in Ids :
       /\ heap[n].type = "S_Return"
       /\ heap[heap[n].value].type = "E_Literal"
  /\ \E n \in Ids :
       /\ heap[n].type = "S_Return"
       /\ heap[heap[n].value].type = "Expression"

\* The else-statement of the If i was parsed after an ELSE token.
HasElse(i) == heap[heap[i].else_st].tw # NoNode

RECURSIVE EndsOpen(_)

\* The statement i ends in an If that has no else-branch.
EndsOpen(i) ==
  CASE heap[i].type = "S_If" ->
         IF HasElse(i) THEN EndsOpen(heap[i].else_st) ELSE TRUE
    [] heap[i].type \in {"S_While", "S_For"} -> EndsOpen(heap[i].body_st)
    [] OTHER -> FALSE

\* C9: an If has an else-branch only if its then-statement does not end in
\* an If without one: the ELSE goes to the innermost open If.
C9_DanglingElse ==
  AllBuilt =>
    \A n \in Ids :
      (heap[n].type = "S_If" /\ Completed(n) /\ HasElse(n)) =>
        ~EndsOpen(heap[n].then_st)

\* C9 witness: IF (a) IF (b) s1 ELSE s2 was built with s2 as the inner If's
\* else-statement and an S_Empty as the outer's.
C9_Witness ==
  /\ pc = "returned"
  /\ \E n \in Ids :
       /\ heap[n].type = "S_If"
       /\ ~HasElse(n)
       /\ heap[heap[n].then_st].type = "S_If"
       /\ heap[heap[n].then_st].from = heap[n].from + 2
       /\ HasElse(heap[n].then_st)
       /\ heap[heap[heap[n].then_st].else_st].type = "S_Return"

\* C10: no loop is cut, every consume_statement call that returned has
\* advanced its cursor, parse has collected at most one statement per token
\* consumed, and when parse has returned every stream is exhausted.
C10_Progress ==
  /\ ~last.over
  /\ (last.kind # "" /\ last.ok) => last.exit > last.entry
  /\ AllBuilt =>
       /\ \A i \in Ids : Completed(i) => heap[i].to > heap[i].from
       /\ Len(sx) < tws[tw].pos
       /\ tws[tw].pos <= Len(tokens) + 1
  /\ pc = "returned" =>
       \A j \in 1..Len(tws) : tws[j].pos = Len(tws[j].tokens) + 1

\* C10 witness: parse returned after its loop, a block loop and both loops
\* of a For ran to the end of their streams.
C10_Witness ==
  /\ pc = "returned"
  /\ Len(ret[1]) >= 2
  /\ \E j \in 2..Len(tws) :
       /\ heap[tws[j].owner].type = "S_Block"
       /\ Len(tws[j].tokens) >= 2
  /\ \E j \in 2..Len(tws) :
       /\ heap[tws[j].owner].type = "S_For"
       /\ Len(tws[j].tokens) >= 5

====
